---- MODULE Spec2Model ----
(***************************************************************************)
(* Model of the two sample programs of the repository:                     *)
(*   ratatui-counter-demo  (main.rs, tui.rs, errors.rs)                    *)
(*   ratatui-demo          (main.rs)                                       *)
(* The state is the terminal session mode (alternate screen, raw mode),    *)
(* the installed fault hooks, the App state (counter, exit), the position  *)
(* of main / the run loop, and what the process has written as             *)
(* diagnostics.  Backend calls that end in `?` may fail; the failure is an *)
(* input of the action.                                                    *)
(***************************************************************************)
EXTENDS Integers, Sequences, FiniteSets, TLC

VARIABLES
    prog,             \* what runs: "counter" | "hello" | "unit" | "tui"
    overflow_checks,  \* build profile: TRUE = overflow checks on (dev/test)
    pc,               \* position of main / the loop
    counter,          \* App.counter (u8)
    exit,             \* App.exit
    alt_screen,       \* terminal is on the alternate screen
    raw_mode,         \* terminal is in raw mode
    panic_hook_set,   \* errors.rs panic hook is installed
    eyre_hook_set,    \* errors.rs eyre hook is installed
    hook_installs,    \* completed calls of install_hooks
    restores,         \* calls of tui::restore so far
    err,              \* error value travelling up to main, or "none"
    panic_msg,        \* message of the panic in flight, or "none"
    diag,             \* diagnostics written so far, with the mode at that time
    status,           \* "running" | "ok" | "err" | "panic" | "abort"
    frame,            \* counter value shown by the last submitted frame, -1 if none
    frames,           \* frames submitted so far
    event,            \* event delivered by the latest read, NoEvent if none
    outcome,          \* result of the last event handling step
    calls,            \* direct calls of handle_key_event (unit harness)
    waits,            \* waits for input begun so far (event::read / event::poll)
    reads,            \* input events delivered by event::read so far
    tui_log,          \* calls of tui::init / tui::restore made by the tui harness
    prev,             \* App state before the latest event handling step
    poll,             \* result of the latest event::poll, "none" before any
    init_fault        \* step of the latest tui::init that failed, or "none"

vars == <<prog, overflow_checks, pc, counter, exit, alt_screen, raw_mode,
          panic_hook_set, eyre_hook_set, hook_installs, restores, err,
          panic_msg, diag, status, frame, frames, event, outcome, calls,
          waits, reads, tui_log, prev, poll, init_fault>>

\* ---------------------------------------------------------------- bounds
\* frames a run may submit (caps the otherwise endless loops)
MaxFrames == 4
\* direct calls of handle_key_event the unit harness makes on one App
MaxCalls == 3
\* calls of tui::init / tui::restore the tui harness makes
MaxTuiCalls == 3

\* ------------------------------------------------------------- constants
\* App.counter is a u8
U8Modulus == 256
\* increment_counter rejects values above this
CounterMax == 2

KeyKinds == {"Press", "Release", "Repeat"}
KeyCodes == {"q", "Left", "Right", "Other"}

NoEvent == [type |-> "None", kind |-> "None", code |-> "None"]
ResizeEvent == [type |-> "Resize", kind |-> "None", code |-> "None"]
KeyEvents == [type : {"Key"}, kind : KeyKinds, code : KeyCodes]
\* what event::read() can deliver
Events == KeyEvents \cup {ResizeEvent}

KeyPress(c) == [type |-> "Key", kind |-> "Press", code |-> c]

\* --------------------------------------------------------- tui.rs (pure)
\* tui::init(): EnterAlternateScreen?, enable_raw_mode()?, Terminal::new.
\* fault names the step that fails ("none": all succeed).
tui_init(alt, raw, fault) ==
    IF fault = "enter" THEN [alt |-> alt, raw |-> raw, ok |-> FALSE]
    ELSE IF fault = "enable" THEN [alt |-> TRUE, raw |-> raw, ok |-> FALSE]
    ELSE IF fault = "new" THEN [alt |-> TRUE, raw |-> TRUE, ok |-> FALSE]
    ELSE [alt |-> TRUE, raw |-> TRUE, ok |-> TRUE]

InitFaults == {"none", "enter", "enable", "new"}

\* variant of restore that toggles the two modes instead of clearing them
restore_toggle(alt, raw, fault) ==
    IF fault = "leave" THEN [alt |-> alt, raw |-> raw, ok |-> FALSE]
    ELSE IF fault = "disable" THEN [alt |-> ~alt, raw |-> raw, ok |-> FALSE]
    ELSE [alt |-> ~alt, raw |-> ~raw, ok |-> TRUE]

\* tui::restore(): LeaveAlternateScreen?, disable_raw_mode()?, Ok(()).
restore(alt, raw, fault) ==
    IF fault = "leave" THEN [alt |-> alt, raw |-> raw, ok |-> FALSE]
    ELSE IF fault = "disable" THEN [alt |-> FALSE, raw |-> raw, ok |-> FALSE]
    ELSE [alt |-> FALSE, raw |-> FALSE, ok |-> TRUE]

RestoreFaults == {"none", "leave", "disable"}

\* ------------------------------------------------- App transitions (pure)
\* variant of increment_counter that rejects at the cap itself (>= for >)
increment_counter_ge(c, checks) ==
    IF c + 1 >= U8Modulus /\ checks
    THEN [counter |-> c, res |-> "Panic", msg |-> "attempt to add with overflow"]
    ELSE LET v == (c + 1) % U8Modulus IN
         IF v >= CounterMax
         THEN [counter |-> v, res |-> "Err", msg |-> "counter overflow"]
         ELSE [counter |-> v, res |-> "Ok", msg |-> "none"]

\* fn increment_counter: self.counter += 1; if self.counter > 2 { bail! }
\* The u8 addition panics with overflow checks on and wraps otherwise.
increment_counter(c, checks) ==
    IF c + 1 >= U8Modulus /\ checks
    THEN [counter |-> c, res |-> "Panic", msg |-> "attempt to add with overflow"]
    ELSE LET v == (c + 1) % U8Modulus IN
         IF v > CounterMax
         THEN [counter |-> v, res |-> "Err", msg |-> "counter overflow"]
         ELSE [counter |-> v, res |-> "Ok", msg |-> "none"]

\* variant of decrement_counter that wraps in every build (wrapping_sub)
decrement_counter_wrapping(c, checks) ==
    [counter |-> (c - 1 + U8Modulus) % U8Modulus, res |-> "Ok", msg |-> "none"]

\* fn decrement_counter: self.counter -= 1; Ok(())
decrement_counter(c, checks) ==
    IF c - 1 < 0 /\ checks
    THEN [counter |-> c, res |-> "Panic", msg |-> "attempt to subtract with overflow"]
    ELSE [counter |-> (c - 1 + U8Modulus) % U8Modulus, res |-> "Ok", msg |-> "none"]

\* fn exit: self.exit = true
app_exit(e) == TRUE

\* variant of handle_key_event without the Left arm (Left falls to `_`)
handle_key_event_no_left(c, e, code, checks) ==
    IF code = "q"
    THEN [counter |-> c, exit |-> app_exit(e), res |-> "Ok", msg |-> "none"]
    ELSE IF code = "Right"
    THEN LET i == increment_counter(c, checks) IN
         [counter |-> i.counter, exit |-> e, res |-> i.res, msg |-> i.msg]
    ELSE [counter |-> c, exit |-> e, res |-> "Ok", msg |-> "none"]

\* variant of handle_key_event whose 'q' arm also clears the counter
handle_key_event_q_clears(c, e, code, checks) ==
    IF code = "q"
    THEN [counter |-> 0, exit |-> app_exit(e), res |-> "Ok", msg |-> "none"]
    ELSE IF code = "Left"
    THEN LET d == decrement_counter(c, checks) IN
         [counter |-> d.counter, exit |-> e, res |-> d.res, msg |-> d.msg]
    ELSE IF code = "Right"
    THEN LET i == increment_counter(c, checks) IN
         [counter |-> i.counter, exit |-> e, res |-> i.res, msg |-> i.msg]
    ELSE [counter |-> c, exit |-> e, res |-> "Ok", msg |-> "none"]

\* fn handle_key_event: match key_event.code { 'q', Left, Right, _ }
handle_key_event(c, e, code, checks) ==
    IF code = "q"
    THEN [counter |-> c, exit |-> app_exit(e), res |-> "Ok", msg |-> "none"]
    ELSE IF code = "Left"
    THEN LET d == decrement_counter(c, checks) IN
         [counter |-> d.counter, exit |-> e, res |-> d.res, msg |-> d.msg]
    ELSE IF code = "Right"
    THEN LET i == increment_counter(c, checks) IN
         [counter |-> i.counter, exit |-> e, res |-> i.res, msg |-> i.msg]
    ELSE [counter |-> c, exit |-> e, res |-> "Ok", msg |-> "none"]

\* variant of dispatch_event without the `kind == Press` guard
dispatch_event_any_kind(c, e, ev, checks) ==
    IF ev.type = "Key"
    THEN handle_key_event(c, e, ev.code, checks)
    ELSE [counter |-> c, exit |-> e, res |-> "Ok", msg |-> "none"]

\* the match of fn handle_events on an event that was read successfully:
\* only Event::Key with kind Press is dispatched, everything else is Ok(())
dispatch_event(c, e, ev, checks) ==
    IF ev.type = "Key" /\ ev.kind = "Press"
    THEN handle_key_event(c, e, ev.code, checks)
    ELSE [counter |-> c, exit |-> e, res |-> "Ok", msg |-> "none"]

\* the test of main_loop (ratatui-demo) on an event that was read:
\* break iff it is a key press of 'q'
hello_breaks(ev) ==
    ev.type = "Key" /\ ev.kind = "Press" /\ ev.code = "q"

\* a diagnostic line, tagged with the terminal mode it was written in
Diag(kind, alt, raw) == [kind |-> kind, alt |-> alt, raw |-> raw]


\* ------------------------------------------------------------------ Init
\* State after process start: terminal in normal mode, no hook installed,
\* App::default() = { counter: 0, exit: false }.
Init ==
    /\ prog \in {"counter", "hello"}
    /\ overflow_checks \in BOOLEAN
    /\ pc = IF prog = "counter" THEN "install_hooks" ELSE "enter_alt"
    /\ counter = 0
    /\ exit = FALSE
    /\ alt_screen = FALSE
    /\ raw_mode = FALSE
    /\ panic_hook_set = FALSE
    /\ eyre_hook_set = FALSE
    /\ hook_installs = 0
    /\ restores = 0
    /\ err = "none"
    /\ panic_msg = "none"
    /\ diag = << >>
    /\ status = "running"
    /\ frame = -1
    /\ frames = 0
    /\ event = NoEvent
    /\ outcome = "none"
    /\ calls = 0
    /\ waits = 0
    /\ reads = 0
    /\ tui_log = << >>
    /\ prev = [counter |-> counter, exit |-> exit]
    /\ poll = "none"
    /\ init_fault = "none"

\* ------------------------------------------- ratatui-counter-demo: main
\* variant of main_install_hooks whose result main ignores (no `?`)
main_install_hooks_unchecked ==
    /\ prog = "counter" /\ pc = "install_hooks"
    /\ \E ok \in BOOLEAN :
          /\ panic_hook_set' = TRUE
          /\ eyre_hook_set' = ok
          /\ hook_installs' = IF ok THEN hook_installs + 1 ELSE hook_installs
          /\ pc' = "init"
          /\ err' = err
    /\ UNCHANGED <<init_fault, poll, prev, tui_log, waits, reads, calls, prog, overflow_checks,
                   counter, exit, alt_screen, raw_mode, restores, panic_msg,
                   diag, status, frame, frames, event, outcome>>

\* errors::install_hooks()?  panic::set_hook cannot fail; eyre::set_hook(..)?
\* fails when the registration machinery refuses the hook.  On failure main
\* returns the error at once (tui::init is not reached).
main_install_hooks ==
    /\ prog = "counter" /\ pc = "install_hooks"
    /\ \E ok \in BOOLEAN :
          /\ panic_hook_set' = TRUE
          /\ eyre_hook_set' = ok
          /\ IF ok
             THEN /\ hook_installs' = hook_installs + 1
                  /\ pc' = "init"
                  /\ err' = err
             ELSE /\ hook_installs' = hook_installs
                  /\ pc' = "main_err"
                  /\ err' = "install hook failed"
    /\ UNCHANGED <<init_fault, poll, prev, tui_log, waits, reads, calls, prog, overflow_checks, counter, exit, alt_screen, raw_mode,
                   restores, panic_msg, diag, status, frame, frames, event,
                   outcome>>

\* variant of main_init in which `?` hands the io::Error to main's caller
\* without making a Report (no eyre hook run)
main_init_plain_error ==
    /\ prog = "counter" /\ pc = "init"
    /\ \E fault \in InitFaults :
          LET r == tui_init(alt_screen, raw_mode, fault) IN
          /\ alt_screen' = r.alt
          /\ raw_mode' = r.raw
          /\ init_fault' = fault
          /\ IF r.ok
             THEN pc' = "loop_top" /\ err' = err
             ELSE pc' = "main_err" /\ err' = "io: init"
    /\ UNCHANGED <<poll, prev, tui_log, waits, reads, calls, prog,
                   overflow_checks, counter, exit, panic_hook_set,
                   eyre_hook_set, hook_installs, restores, panic_msg, diag,
                   status, frame, frames, event, outcome>>

\* let mut terminal = tui::init()?;  an io::Error becomes a Report in `?`,
\* which runs the eyre hook.
main_init ==
    /\ prog = "counter" /\ pc = "init"
    /\ \E fault \in InitFaults :
          LET r == tui_init(alt_screen, raw_mode, fault) IN
          /\ alt_screen' = r.alt
          /\ raw_mode' = r.raw
          /\ init_fault' = fault
          /\ IF r.ok
             THEN pc' = "loop_top" /\ err' = err
             ELSE pc' = "eyre_hook" /\ err' = "io: init"
    /\ UNCHANGED <<poll, prev, tui_log, waits, reads, calls, prog, overflow_checks, counter, exit, panic_hook_set,
                   eyre_hook_set, hook_installs, restores, panic_msg, diag,
                   status, frame, frames, event, outcome>>

\* variant of run_loop_top that does not look at exit (`loop` for `while`)
run_loop_top_unconditional ==
    /\ prog = "counter" /\ pc = "loop_top"
    /\ pc' = "draw" /\ status' = status
    /\ UNCHANGED <<init_fault, poll, prev, tui_log, waits, reads, calls, prog, overflow_checks, counter, exit, alt_screen,
                   raw_mode, panic_hook_set, eyre_hook_set, hook_installs,
                   restores, err, panic_msg, diag, frame, frames, event,
                   outcome>>

\* variant of run_loop_top that goes straight to the event wait (no draw)
run_loop_top_skip_draw ==
    /\ prog = "counter" /\ pc = "loop_top"
    /\ IF exit
       THEN pc' = "exited" /\ status' = "ok"
       ELSE pc' = "handle_events" /\ status' = status
    /\ UNCHANGED <<init_fault, poll, prev, tui_log, waits, reads, calls, prog, overflow_checks,
                   counter, exit, alt_screen, raw_mode, panic_hook_set,
                   eyre_hook_set, hook_installs, restores, err, panic_msg,
                   diag, frame, frames, event, outcome>>

\* App::run, `while !self.exit`: when exit is set run returns Ok(()) and main
\* returns Ok(()) right after it (main.rs 27-28).
run_loop_top ==
    /\ prog = "counter" /\ pc = "loop_top"
    /\ IF exit
       THEN pc' = "exited" /\ status' = "ok"
       ELSE pc' = "draw" /\ status' = status
    /\ UNCHANGED <<init_fault, poll, prev, tui_log, waits, reads, calls, prog, overflow_checks, counter, exit, alt_screen, raw_mode,
                   panic_hook_set, eyre_hook_set, hook_installs, restores,
                   err, panic_msg, diag, frame, frames, event, outcome>>

\* variant of run_draw that drops the result of draw (no `?`)
run_draw_ignore_error ==
    /\ prog = "counter" /\ pc = "draw"
    /\ frames < MaxFrames
    /\ \E ok \in BOOLEAN :
          IF ok
          THEN /\ frame' = counter
               /\ frames' = frames + 1
               /\ err' = err
          ELSE /\ frame' = frame
               /\ frames' = frames + 1
               /\ err' = "io: draw"
    /\ pc' = "handle_events"
    /\ UNCHANGED <<init_fault, poll, prev, tui_log, waits, reads, calls, prog, overflow_checks,
                   counter, exit, alt_screen, raw_mode, panic_hook_set,
                   eyre_hook_set, hook_installs, restores, panic_msg, diag,
                   status, event, outcome>>

\* terminal.draw(|frame| self.render_frame(frame))?;  the frame shows
\* self.counter; rendering takes &self and changes nothing.
run_draw ==
    /\ prog = "counter" /\ pc = "draw"
    /\ frames < MaxFrames
    /\ \E ok \in BOOLEAN :
          IF ok
          THEN /\ frame' = counter
               /\ frames' = frames + 1
               /\ pc' = "handle_events"
               /\ err' = err
          ELSE /\ frame' = frame
               /\ frames' = frames
               /\ pc' = "eyre_hook"
               /\ err' = "io: draw"
    /\ UNCHANGED <<init_fault, poll, prev, tui_log, waits, reads, calls, prog, overflow_checks, counter, exit, alt_screen, raw_mode,
                   panic_hook_set, eyre_hook_set, hook_installs, restores,
                   panic_msg, diag, status, event, outcome>>

\* self.handle_events().wrap_err("handle events failed")?;
\* event::read()? then the match; an Err from the handler is a Report made
\* by bail! (the eyre hook runs when it is made), a panic goes to the panic
\* hook.
run_handle_events ==
    /\ prog = "counter" /\ pc = "handle_events"
    /\ \/ \* event::read() fails
          /\ pc' = "eyre_hook"
          /\ err' = "io: read"
          /\ event' = NoEvent
          /\ reads' = reads
          /\ UNCHANGED <<counter, exit, panic_msg, outcome, prev>>
       \/ \E ev \in Events :
             LET h == dispatch_event(counter, exit, ev, overflow_checks) IN
             /\ event' = ev
             /\ reads' = reads + 1
             /\ prev' = [counter |-> counter, exit |-> exit]
             /\ counter' = h.counter
             /\ exit' = h.exit
             /\ outcome' = h.res
             /\ IF h.res = "Ok"
                THEN pc' = "loop_top" /\ err' = err /\ panic_msg' = panic_msg
                ELSE IF h.res = "Err"
                THEN pc' = "eyre_hook" /\ err' = h.msg /\ panic_msg' = panic_msg
                ELSE pc' = "panic_hook" /\ err' = err /\ panic_msg' = h.msg
    /\ waits' = waits + 1
    /\ UNCHANGED <<init_fault, poll, tui_log, calls, prog, overflow_checks, alt_screen, raw_mode, panic_hook_set,
                   eyre_hook_set, hook_installs, restores, diag, status,
                   frame, frames>>

\* variant of eyre_hook in which wrap_err builds a new Report on the way up,
\* so that the hook (and its restore) runs a second time
eyre_hook_per_wrap ==
    /\ prog = "counter" /\ pc = "eyre_hook"
    /\ eyre_hook_set
    /\ \E fault \in RestoreFaults :
          LET r == restore(alt_screen, raw_mode, fault) IN
          /\ alt_screen' = r.alt
          /\ raw_mode' = r.raw
          /\ restores' = IF r.ok THEN restores + 2 ELSE restores + 1
          /\ IF r.ok
             THEN pc' = "main_err" /\ panic_msg' = panic_msg
             ELSE pc' = "panic_hook" /\ panic_msg' = "unwrap on Err"
    /\ UNCHANGED <<init_fault, poll, prev, tui_log, waits, reads, calls, prog, overflow_checks,
                   counter, exit, panic_hook_set, eyre_hook_set,
                   hook_installs, err, diag, status, frame, frames, event,
                   outcome>>

\* errors.rs 20-25, the eyre hook, run when a Report is created:
\* tui::restore().unwrap(); eyre_hook(error).  A failed restore makes unwrap
\* panic.  The Report then travels up through wrap_err and `?` to main.
eyre_hook ==
    /\ prog = "counter" /\ pc = "eyre_hook"
    /\ eyre_hook_set
    /\ \E fault \in RestoreFaults :
          LET r == restore(alt_screen, raw_mode, fault) IN
          /\ alt_screen' = r.alt
          /\ raw_mode' = r.raw
          /\ restores' = restores + 1
          /\ IF r.ok
             THEN pc' = "main_err" /\ panic_msg' = panic_msg
             ELSE pc' = "panic_hook" /\ panic_msg' = "unwrap on Err"
    /\ UNCHANGED <<init_fault, poll, prev, tui_log, waits, reads, calls, prog, overflow_checks, counter, exit, panic_hook_set,
                   eyre_hook_set, hook_installs, err, diag, status, frame,
                   frames, event, outcome>>

\* main returns Err(report): the runtime prints the report and the process
\* exits with a failure status.
main_err ==
    /\ prog = "counter" /\ pc = "main_err"
    /\ diag' = Append(diag, Diag("error", alt_screen, raw_mode))
    /\ status' = "err"
    /\ pc' = "exited"
    /\ UNCHANGED <<init_fault, poll, prev, tui_log, waits, reads, calls, prog, overflow_checks, counter, exit, alt_screen, raw_mode,
                   panic_hook_set, eyre_hook_set, hook_installs, restores,
                   err, panic_msg, frame, frames, event, outcome>>

\* variant of panic_hook that reports first and restores afterwards
panic_hook_report_first ==
    /\ prog = "counter" /\ pc = "panic_hook"
    /\ panic_hook_set
    /\ \E fault \in RestoreFaults :
          LET r == restore(alt_screen, raw_mode, fault) IN
          /\ alt_screen' = r.alt
          /\ raw_mode' = r.raw
          /\ restores' = restores + 1
          /\ diag' = Append(diag, Diag("panic", alt_screen, raw_mode))
          /\ status' = IF r.ok THEN "panic" ELSE "abort"
    /\ pc' = "exited"
    /\ UNCHANGED <<init_fault, poll, prev, tui_log, waits, reads, calls, prog, overflow_checks, counter, exit, panic_hook_set,
                   eyre_hook_set, hook_installs, err, panic_msg, frame,
                   frames, event, outcome>>

\* errors.rs 13-16, the panic hook: tui::restore().unwrap();
\* panic_hook(panic_info).  A failed restore panics inside the hook: the
\* runtime writes its abort notice and aborts, the default report is not
\* produced.
panic_hook ==
    /\ prog = "counter" /\ pc = "panic_hook"
    /\ panic_hook_set
    /\ \E fault \in RestoreFaults :
          LET r == restore(alt_screen, raw_mode, fault) IN
          /\ alt_screen' = r.alt
          /\ raw_mode' = r.raw
          /\ restores' = restores + 1
          /\ IF r.ok
             THEN /\ diag' = Append(diag, Diag("panic", r.alt, r.raw))
                  /\ status' = "panic"
             ELSE /\ diag' = Append(diag, Diag("abort", r.alt, r.raw))
                  /\ status' = "abort"
    /\ pc' = "exited"
    /\ UNCHANGED <<init_fault, poll, prev, tui_log, waits, reads, calls, prog, overflow_checks, counter, exit, panic_hook_set,
                   eyre_hook_set, hook_installs, err, panic_msg, frame,
                   frames, event, outcome>>


\* ------------------------------------------------- ratatui-demo: main
\* Process exit flushes std's stdout once more.  A command whose flush
\* failed in execute() is still queued in stdout's buffer: the exit-time
\* flush writes it (written, the terminal switches to mode `queued`) or
\* fails as well (the terminal stays as it is).
exit_flush(alt, queued, written) == IF written THEN queued ELSE alt

\* A `?` of main (std::io::Result): main returns the error at once, the
\* runtime prints it, with the terminal in mode alt, and the process exits
\* with a failure status.
hello_fail_at(msg, alt) ==
    /\ err' = msg
    /\ diag' = Append(diag, Diag("error", alt, raw_mode))
    /\ status' = "err"
    /\ pc' = "exited"

\* the same when nothing is queued in stdout at the return
hello_fail(msg) == hello_fail_at(msg, alt_screen)

\* main's early return drops `terminal` before the error is reported: the
\* destructor shows the cursor again if a draw has hidden it (hidden), which
\* flushes stdout; a command still queued there is then written (flushed,
\* the terminal switches to mode `queued`) or the flush fails as well.
terminal_drop(alt, queued, hidden, flushed) ==
    IF hidden /\ flushed THEN queued ELSE alt

\* stdout().execute(EnterAlternateScreen)?;  on failure the error is
\* reported first, then the exit-time flush may still write the command.
hello_enter_alt ==
    /\ prog = "hello" /\ pc = "enter_alt"
    /\ \E ok \in BOOLEAN :
          IF ok
          THEN /\ alt_screen' = TRUE
               /\ pc' = "enable_raw"
               /\ UNCHANGED <<err, diag, status>>
          ELSE /\ \E written \in BOOLEAN :
                    alt_screen' = exit_flush(alt_screen, TRUE, written)
               /\ hello_fail("io: enter alternate screen")
    /\ UNCHANGED <<init_fault, poll, prev, tui_log, waits, reads, calls, prog, overflow_checks, counter, exit, raw_mode,
                   panic_hook_set, eyre_hook_set, hook_installs, restores,
                   panic_msg, frame, frames, event, outcome>>

\* enable_raw_mode()?;
hello_enable_raw ==
    /\ prog = "hello" /\ pc = "enable_raw"
    /\ \E ok \in BOOLEAN :
          IF ok
          THEN /\ raw_mode' = TRUE
               /\ pc' = "terminal"
               /\ UNCHANGED <<err, diag, status>>
          ELSE /\ raw_mode' = raw_mode
               /\ hello_fail("io: enable raw mode")
    /\ UNCHANGED <<init_fault, poll, prev, tui_log, waits, reads, calls, prog, overflow_checks, counter, exit, alt_screen,
                   panic_hook_set, eyre_hook_set, hook_installs, restores,
                   panic_msg, frame, frames, event, outcome>>

\* let mut terminal = Terminal::new(..)?;  terminal.clear()?;
hello_terminal ==
    /\ prog = "hello" /\ pc = "terminal"
    /\ \E ok \in BOOLEAN :
          IF ok
          THEN /\ pc' = "h_draw"
               /\ UNCHANGED <<err, diag, status>>
          ELSE hello_fail("io: terminal")
    /\ UNCHANGED <<init_fault, poll, prev, tui_log, waits, reads, calls, prog, overflow_checks, counter, exit, alt_screen, raw_mode,
                   panic_hook_set, eyre_hook_set, hook_installs, restores,
                   panic_msg, frame, frames, event, outcome>>

\* main_loop: terminal.draw(..)?;
hello_draw ==
    /\ prog = "hello" /\ pc = "h_draw"
    /\ frames < MaxFrames
    /\ \E ok \in BOOLEAN :
          IF ok
          THEN /\ frames' = frames + 1
               /\ pc' = "h_poll"
               /\ UNCHANGED <<err, diag, status>>
          ELSE /\ frames' = frames
               /\ hello_fail("io: draw")
    /\ UNCHANGED <<init_fault, poll, prev, tui_log, waits, reads, calls, prog, overflow_checks, counter, exit, alt_screen, raw_mode,
                   panic_hook_set, eyre_hook_set, hook_installs, restores,
                   panic_msg, frame, event, outcome>>

\* variant of hello_poll in which a timeout leaves the loop
hello_poll_timeout_breaks ==
    /\ prog = "hello" /\ pc = "h_poll"
    /\ \E r \in {"ready", "timeout", "fail"} :
          /\ poll' = r
          /\ IF r = "ready"
             THEN pc' = "h_read" /\ UNCHANGED <<err, diag, status>>
             ELSE IF r = "timeout"
             THEN pc' = "leave_alt" /\ UNCHANGED <<err, diag, status>>
             ELSE hello_fail("io: poll")
    /\ waits' = waits + 1
    /\ UNCHANGED <<init_fault, prev, tui_log, reads, calls, prog, overflow_checks,
                   counter, exit, alt_screen, raw_mode, panic_hook_set,
                   eyre_hook_set, hook_installs, restores, panic_msg, frame,
                   frames, event, outcome>>

\* main_loop: if event::poll(16 ms)? { .. }
hello_poll ==
    /\ prog = "hello" /\ pc = "h_poll"
    /\ \E r \in {"ready", "timeout", "fail"} :
          /\ poll' = r
          /\ IF r = "ready"
             THEN pc' = "h_read" /\ UNCHANGED <<err, diag, status>>
             ELSE IF r = "timeout"
             THEN pc' = "h_draw" /\ UNCHANGED <<err, diag, status>>
             ELSE hello_fail("io: poll")
    /\ waits' = waits + 1
    /\ UNCHANGED <<init_fault, prev, tui_log, reads, calls, prog, overflow_checks, counter, exit, alt_screen, raw_mode,
                   panic_hook_set, eyre_hook_set, hook_installs, restores,
                   panic_msg, frame, frames, event, outcome>>

\* main_loop: if let Event::Key(key) = event::read()? { if press && 'q' { break } }
hello_read ==
    /\ prog = "hello" /\ pc = "h_read"
    /\ \/ /\ hello_fail("io: read")
          /\ event' = NoEvent
          /\ reads' = reads
       \/ \E ev \in Events :
             /\ event' = ev
             /\ reads' = reads + 1
             /\ pc' = IF hello_breaks(ev) THEN "leave_alt" ELSE "h_draw"
             /\ UNCHANGED <<err, diag, status>>
    /\ UNCHANGED <<init_fault, poll, prev, tui_log, waits, calls, prog, overflow_checks, counter, exit, alt_screen, raw_mode,
                   panic_hook_set, eyre_hook_set, hook_installs, restores,
                   panic_msg, frame, frames, outcome>>

\* after the loop: stdout().execute(LeaveAlternateScreen)?;  on failure the
\* command stays queued: the drop of `terminal` may write it before the
\* error is reported, otherwise the exit-time flush may write it after.
hello_leave_alt ==
    /\ prog = "hello" /\ pc = "leave_alt"
    /\ \E ok \in BOOLEAN :
          IF ok
          THEN /\ alt_screen' = FALSE
               /\ pc' = "disable_raw"
               /\ UNCHANGED <<err, diag, status>>
          ELSE \E flushed \in BOOLEAN, written \in BOOLEAN :
                  LET at_report == terminal_drop(alt_screen, FALSE,
                                                 frames > 0, flushed)
                  IN  /\ hello_fail_at("io: leave alternate screen",
                                       at_report)
                      /\ alt_screen' = exit_flush(at_report, FALSE, written)
    /\ UNCHANGED <<init_fault, poll, prev, tui_log, waits, reads, calls, prog, overflow_checks, counter, exit, raw_mode,
                   panic_hook_set, eyre_hook_set, hook_installs, restores,
                   panic_msg, frame, frames, event, outcome>>

\* disable_raw_mode()?;  Ok(())
hello_disable_raw ==
    /\ prog = "hello" /\ pc = "disable_raw"
    /\ \E ok \in BOOLEAN :
          IF ok
          THEN /\ raw_mode' = FALSE
               /\ pc' = "exited"
               /\ status' = "ok"
               /\ UNCHANGED <<err, diag>>
          ELSE /\ raw_mode' = raw_mode
               /\ hello_fail("io: disable raw mode")
    /\ UNCHANGED <<init_fault, poll, prev, tui_log, waits, reads, calls, prog, overflow_checks, counter, exit, alt_screen,
                   panic_hook_set, eyre_hook_set, hook_installs, restores,
                   panic_msg, frame, frames, event, outcome>>

\* ------------------------------------------------------------------ Next
Next ==
    \/ main_install_hooks
    \/ main_init
    \/ run_loop_top
    \/ run_draw
    \/ run_handle_events
    \/ eyre_hook
    \/ main_err
    \/ panic_hook
    \/ hello_enter_alt
    \/ hello_enable_raw
    \/ hello_terminal
    \/ hello_draw
    \/ hello_poll
    \/ hello_read
    \/ hello_leave_alt
    \/ hello_disable_raw

Spec == Init /\ [][Next]_vars

\* ------------------------------------------- unit harness (mod tests)
\* The tests of main.rs call App::handle_key_event directly on an App, with
\* no terminal and no hooks.  The harness does the same on an arbitrary App
\* value, for every build profile.
InitUnit ==
    /\ prog = "unit"
    /\ overflow_checks \in BOOLEAN
    /\ pc = "call"
    /\ counter \in 0 .. (U8Modulus - 1)
    /\ exit \in BOOLEAN
    /\ alt_screen = FALSE
    /\ raw_mode = FALSE
    /\ panic_hook_set = FALSE
    /\ eyre_hook_set = FALSE
    /\ hook_installs = 0
    /\ restores = 0
    /\ err = "none"
    /\ panic_msg = "none"
    /\ diag = << >>
    /\ status = "running"
    /\ frame = -1
    /\ frames = 0
    /\ event = NoEvent
    /\ outcome = "none"
    /\ calls = 0
    /\ waits = 0
    /\ reads = 0
    /\ tui_log = << >>
    /\ prev = [counter |-> counter, exit |-> exit]
    /\ poll = "none"
    /\ init_fault = "none"

\* app.handle_key_event(code.into()): KeyCode.into() is a key press.  A
\* panic ends the test thread; Ok and Err return to the caller.
unit_handle_key_event ==
    /\ prog = "unit" /\ pc = "call"
    /\ calls < MaxCalls
    /\ \E code \in KeyCodes :
          LET h == handle_key_event(counter, exit, code, overflow_checks) IN
          /\ event' = KeyPress(code)
          /\ prev' = [counter |-> counter, exit |-> exit]
          /\ counter' = h.counter
          /\ exit' = h.exit
          /\ outcome' = h.res
          /\ err' = IF h.res = "Err" THEN h.msg ELSE err
          /\ panic_msg' = IF h.res = "Panic" THEN h.msg ELSE panic_msg
          /\ pc' = IF h.res = "Panic" THEN "exited" ELSE "call"
          /\ status' = IF h.res = "Panic" THEN "panic" ELSE status
    /\ calls' = calls + 1
    /\ UNCHANGED <<init_fault, poll, tui_log, waits, reads, prog, overflow_checks, alt_screen, raw_mode, panic_hook_set,
                   eyre_hook_set, hook_installs, restores, diag, frame, frames>>

NextUnit == unit_handle_key_event

SpecUnit == InitUnit /\ [][NextUnit]_vars

\* the App both as the programs drive it and as the unit harness calls it
InitApp == Init \/ InitUnit

NextApp == Next \/ NextUnit

SpecApp == InitApp /\ [][NextApp]_vars

\* ------------------------------------------------------- tui harness
\* tui::init and tui::restore are public functions of tui.rs; the harness
\* calls them in any order, each call with any backend outcome.
InitTui ==
    /\ prog = "tui"
    /\ overflow_checks \in BOOLEAN
    /\ pc = "tui"
    /\ counter = 0
    /\ exit = FALSE
    /\ alt_screen = FALSE
    /\ raw_mode = FALSE
    /\ panic_hook_set = FALSE
    /\ eyre_hook_set = FALSE
    /\ hook_installs = 0
    /\ restores = 0
    /\ err = "none"
    /\ panic_msg = "none"
    /\ diag = << >>
    /\ status = "running"
    /\ frame = -1
    /\ frames = 0
    /\ event = NoEvent
    /\ outcome = "none"
    /\ calls = 0
    /\ waits = 0
    /\ reads = 0
    /\ tui_log = << >>
    /\ prev = [counter |-> counter, exit |-> exit]
    /\ poll = "none"
    /\ init_fault = "none"

TuiCall(call, fault, ok) == [call |-> call, fault |-> fault, ok |-> ok]

\* let _ = tui::init();
tui_call_init ==
    /\ prog = "tui" /\ pc = "tui"
    /\ Len(tui_log) < MaxTuiCalls
    /\ \E fault \in InitFaults :
          LET r == tui_init(alt_screen, raw_mode, fault) IN
          /\ alt_screen' = r.alt
          /\ raw_mode' = r.raw
          /\ tui_log' = Append(tui_log, TuiCall("init", fault, r.ok))
    /\ UNCHANGED <<init_fault, poll, prev, prog, overflow_checks, pc, counter, exit, panic_hook_set,
                   eyre_hook_set, hook_installs, restores, err, panic_msg,
                   diag, status, frame, frames, event, outcome, calls, waits,
                   reads>>

\* let _ = tui::restore();
tui_call_restore ==
    /\ prog = "tui" /\ pc = "tui"
    /\ Len(tui_log) < MaxTuiCalls
    /\ \E fault \in RestoreFaults :
          LET r == restore(alt_screen, raw_mode, fault) IN
          /\ alt_screen' = r.alt
          /\ raw_mode' = r.raw
          /\ restores' = restores + 1
          /\ tui_log' = Append(tui_log, TuiCall("restore", fault, r.ok))
    /\ UNCHANGED <<init_fault, poll, prev, prog, overflow_checks, pc, counter, exit, panic_hook_set,
                   eyre_hook_set, hook_installs, err, panic_msg, diag, status,
                   frame, frames, event, outcome, calls, waits, reads>>

NextTui == tui_call_init \/ tui_call_restore

SpecTui == InitTui /\ [][NextTui]_vars

\* ---------------------------------------------------------- derived terms
normal_mode == ~alt_screen /\ ~raw_mode
interactive_mode == alt_screen /\ raw_mode

TypeOK ==
    /\ prog \in {"counter", "hello", "unit", "tui"}
    /\ overflow_checks \in BOOLEAN
    /\ counter \in 0 .. (U8Modulus - 1)
    /\ exit \in BOOLEAN
    /\ alt_screen \in BOOLEAN /\ raw_mode \in BOOLEAN
    /\ frames \in 0 .. MaxFrames
    /\ frame \in -1 .. (U8Modulus - 1)
    /\ status \in {"running", "ok", "err", "panic", "abort"}
    /\ outcome \in {"none", "Ok", "Err", "Panic"}
    /\ event \in Events \cup {NoEvent}
    /\ Len(diag) <= 1
    /\ calls \in 0 .. MaxCalls
    /\ waits \in 0 .. MaxFrames
    /\ reads \in 0 .. MaxFrames
    /\ poll \in {"none", "ready", "timeout", "fail"}
    /\ init_fault \in InitFaults


\* ================================================================ claims
\* kinds of diagnostic written by the default panic / error reporting (the
\* color_eyre report); "abort" is the runtime's notice for a panic inside
\* the panic hook, written instead of the report when restore itself fails
DefaultReports == {"error", "panic"}

\* the step hands a press of key `code` to handle_key_event
Dispatched(code) ==
    /\ \/ prog = "counter" /\ pc = "handle_events"
       \/ prog = "unit" /\ pc = "call"
    /\ event' = KeyPress(code)

IsPress(ev) == ev.type = "Key" /\ ev.kind = "Press"

\* C1: whenever a program has terminated gracefully (main returned success
\* after a 'q' press), the terminal is back in normal mode: alternate
\* screen left and raw mode disabled.
C1_GracefulExitRestored ==
    (pc = "exited" /\ status = "ok") => normal_mode

\* C2 as stated: in the counter program restore() has run to completion
\* before any diagnostic text is emitted on a fatal path: no diagnostic is
\* ever written while the terminal is still in interactive mode.
C2_RestoreBeforeDiagnostic ==
    (/\ prog = "counter"
     /\ \/ err \in {"io: draw", "io: read", "counter overflow"}
        \/ panic_msg = "attempt to subtract with overflow")
        => \A i \in 1 .. Len(diag) :
              /\ ~diag[i].alt
              /\ ~diag[i].raw
              /\ restores >= 1

\* C2 amended: every diagnostic of the default panic/error reporting is
\* written with the terminal in normal mode and, once the hooks are
\* installed, after restore() has been called; a diagnostic written in
\* interactive mode is the runtime's abort notice, written instead of the
\* default report when restore has failed inside the panic hook.
C2_RestoreBeforeDefaultReport ==
    prog = "counter" =>
        \A i \in 1 .. Len(diag) :
            /\ diag[i].kind \in DefaultReports =>
                  /\ ~diag[i].alt
                  /\ ~diag[i].raw
                  /\ eyre_hook_set => restores >= 1
            /\ (diag[i].alt \/ diag[i].raw) => diag[i].kind = "abort"
            /\ diag[i].kind = "abort" =>
                  /\ status = "abort"
                  /\ Len(diag) = 1
                  /\ restores >= 1
                  /\ panic_msg # "none"
                  /\ diag[i].alt = alt_screen /\ diag[i].raw = raw_mode

\* C2 witness: a panic raised in the loop (interactive mode) has been
\* reported, in normal mode, after the restore of the panic hook.
C2_Witness ==
    /\ prog = "counter"
    /\ frames > 0
    /\ status = "panic"
    /\ panic_msg = "attempt to subtract with overflow"
    /\ restores = 1
    /\ diag = <<Diag("panic", FALSE, FALSE)>>

\* C3: in the polling program, when main has returned the error of a failed
\* terminal creation/clear, draw, poll or read, the terminal is in normal
\* mode.
C3_HelloErrorRestored ==
    (/\ prog = "hello"
     /\ status = "err"
     /\ err \in {"io: terminal", "io: draw", "io: poll", "io: read"})
        => normal_mode

\* C4: in the counter program the counter is within [0, 2] in every state,
\* also after a rejected increment or decrement.
C4_CounterInRange ==
    prog = "counter" => counter \in 0 .. CounterMax

\* C5: scenario A: a Right press handled in state (2, false) fails with the
\* overflow error, leaves the state (2, false) and the loop goes on to its
\* next iteration.
C5_ScenarioA ==
    [][(/\ prog = "counter" /\ pc = "handle_events"
        /\ counter = 2 /\ ~exit
        /\ event' = KeyPress("Right"))
        => (/\ outcome' = "Err" /\ err' = "counter overflow"
            /\ counter' = 2 /\ ~exit'
            /\ pc' = "loop_top")]_vars

\* C6: scenario B: a Left press handled in state (0, false) returns an
\* underflow error value, leaves the state (0, false) and the loop goes on
\* to its next iteration.
C6_ScenarioB ==
    [][(/\ prog = "counter" /\ pc = "handle_events"
        /\ counter = 0 /\ ~exit
        /\ event' = KeyPress("Left"))
        => (/\ outcome' = "Err" /\ err' = "counter underflow"
            /\ counter' = 0 /\ ~exit'
            /\ pc' = "loop_top")]_vars

\* C7 as stated: handling a Left press with counter = 0 never returns, it
\* panics with 'attempt to subtract with overflow', in every state with
\* counter = 0.
C7_DecrementAtZeroPanics ==
    [][(Dispatched("Left") /\ counter = 0)
        => (/\ outcome' = "Panic"
            /\ panic_msg' = "attempt to subtract with overflow")]_vars

\* C7 amended: handling a Left press with counter = 0 panics with 'attempt
\* to subtract with overflow' (state untouched) when the build has overflow
\* checks on; with overflow checks off it returns Ok and the counter wraps
\* to 255.
C7_DecrementAtZeroByBuild ==
    [][(Dispatched("Left") /\ counter = 0)
        => IF overflow_checks
           THEN /\ outcome' = "Panic"
                /\ panic_msg' = "attempt to subtract with overflow"
                /\ counter' = 0 /\ exit' = exit
           ELSE /\ outcome' = "Ok"
                /\ counter' = U8Modulus - 1 /\ exit' = exit]_vars

\* C7 witness: a Left press at counter = 0 has panicked.
C7_Witness ==
    /\ event = KeyPress("Left")
    /\ counter = 0
    /\ outcome = "Panic"
    /\ panic_msg = "attempt to subtract with overflow"
    /\ status = "panic"

\* C8: handling a Right press returns the error 'counter overflow'
\* exactly when the counter before it is 2 or more, and success exactly
\* when the counter before it is 0 or 1.
C8_OverflowIffAtLeastTwo ==
    [][Dispatched("Right")
        => (/\ (outcome' = "Err" /\ err' = "counter overflow") <=> counter >= 2
            /\ outcome' = "Ok" <=> counter \in {0, 1})]_vars

\* what increment_counter does for every u8 value: the error 'counter
\* overflow' exactly when the counter before it is in 2..254, success when
\* it is 0 or 1; at 255 the u8 addition overflows: a panic 'attempt to add
\* with overflow' with overflow checks on, a wrap to 0 and success with them
\* off.
C8_OverflowIffTwoToMax ==
    [][Dispatched("Right")
        => (/\ (outcome' = "Err" /\ err' = "counter overflow")
                  <=> counter \in 2 .. (U8Modulus - 2)
            /\ outcome' = "Ok"
                  <=> (counter \in {0, 1}
                       \/ (counter = U8Modulus - 1 /\ ~overflow_checks))
            /\ outcome' = "Panic"
                  <=> (counter = U8Modulus - 1 /\ overflow_checks)
            /\ outcome' = "Panic" => panic_msg' = "attempt to add with overflow"
            /\ (counter = U8Modulus - 1 /\ ~overflow_checks) => counter' = 0)]_vars

\* the increment from 2 has been rejected
C8_Witness ==
    /\ event = KeyPress("Right")
    /\ outcome = "Err"
    /\ err = "counter overflow"
    /\ counter = CounterMax + 1

\* C9: exit never goes from true to false, and in the counter program a
\* state with exit = true is at the loop-top check, whose only step ends
\* the run with success: no transition is applied, no frame is drawn and no
\* event is read after the quit.
C9_QuitMonotonic ==
    [][/\ exit => exit'
       /\ (prog = "counter" /\ exit)
            => (/\ pc = "loop_top"
                /\ pc' = "exited" /\ status' = "ok"
                /\ counter' = counter
                /\ frames' = frames /\ frame' = frame
                /\ event' = event)]_vars

\* C9 witness: the run ended with success after a 'q' press.
C9_Witness ==
    /\ prog = "counter"
    /\ event = KeyPress("q")
    /\ exit
    /\ pc = "exited"
    /\ status = "ok"

\* C10: in both loops an event that is not a key press (a release, a
\* repeat, a non-key event) changes neither counter nor exit and does not
\* end the loop, whatever its key code; counter and exit change, and the
\* polling loop breaks, only on a key press.
C10_KeyKindFiltering ==
    [][/\ (/\ prog = "counter" /\ pc = "handle_events"
           /\ event' \in Events /\ ~IsPress(event'))
            => (/\ counter' = counter /\ exit' = exit
                /\ pc' = "loop_top" /\ status' = status)
       /\ (/\ prog = "hello" /\ pc = "h_read"
           /\ event' \in Events /\ ~IsPress(event'))
            => (/\ counter' = counter /\ exit' = exit
                /\ pc' = "h_draw" /\ status' = status)
       /\ (prog \in {"counter", "hello"} /\ (counter' # counter \/ exit' # exit))
            => IsPress(event')
       /\ (prog = "hello" /\ pc = "h_read" /\ pc' = "leave_alt")
            => IsPress(event')]_vars

\* C10 witness: a release of 'q' was read and the counter loop went on.
C10_Witness ==
    /\ prog = "counter"
    /\ event = [type |-> "Key", kind |-> "Release", code |-> "q"]
    /\ pc = "loop_top"
    /\ ~exit
    /\ status = "running"


\* C11: in both loops frames and waits for input alternate strictly: a wait
\* begins only when exactly one frame has been submitted since the previous
\* wait, a frame is submitted only when the previous frame's wait is over,
\* every event delivered belongs to a wait of its own (in the polling loop
\* the read follows a poll of the same iteration), so at most one event is
\* consumed between two frames and none before the first frame.
C11_FramesAndWaitsAlternate ==
    [][/\ waits' # waits
            => (waits' = waits + 1 /\ frames = waits + 1 /\ frames' = frames)
       /\ frames' # frames
            => (/\ frames' = frames + 1 /\ frames = waits
                /\ waits' = waits /\ reads' = reads)
       /\ reads' # reads
            => (/\ reads' = reads + 1 /\ reads' <= waits'
                /\ frames' = frames /\ frames >= 1
                /\ prog = "counter" => waits' = waits + 1
                /\ prog = "hello" => (pc = "h_read" /\ pc' # "h_read"))
       /\ (prog = "hello" /\ pc' = "h_read" /\ pc # "h_read")
            => (pc = "h_poll" /\ waits' = waits + 1)]_vars

\* C11 witness: the counter loop has completed two iterations, each one
\* frame, one wait, one event.
C11_Witness ==
    /\ prog = "counter"
    /\ pc = "loop_top"
    /\ frames = 2 /\ waits = 2 /\ reads = 2


\* C12: in the counter program install_hooks completes at most once, it
\* does so while the terminal is still in normal mode, tui::init is called
\* only after it has completed successfully (both hooks set), and after a
\* failed install_hooks the terminal never leaves normal mode.
C12_HooksBeforeEnter ==
    [][/\ hook_installs' <= 1
       /\ hook_installs' # hook_installs
            => (pc = "install_hooks" /\ normal_mode)
       /\ (prog = "counter" /\ pc = "init" /\ pc' # "init")
            => (hook_installs = 1 /\ panic_hook_set /\ eyre_hook_set)
       /\ (prog = "counter" /\ pc' # "install_hooks" /\ ~eyre_hook_set')
            => (~alt_screen' /\ ~raw_mode' /\ pc' \in {"main_err", "exited"})]_vars

\* C12 witness: the counter program is in interactive mode, with the hooks
\* installed once.
C12_Witness ==
    /\ prog = "counter"
    /\ pc = "loop_top"
    /\ interactive_mode
    /\ hook_installs = 1
    /\ panic_hook_set /\ eyre_hook_set


\* the step is a call of tui::restore by the tui harness
RestoreCalled ==
    /\ prog = "tui"
    /\ Len(tui_log') = Len(tui_log) + 1
    /\ tui_log'[Len(tui_log')].call = "restore"

\* C13 as stated: in any sequence of init and restore calls every restore
\* call succeeds and leaves the terminal in normal mode.
C13_RestoreNeverFails ==
    [][RestoreCalled
        => (/\ tui_log'[Len(tui_log')].ok
            /\ ~alt_screen' /\ ~raw_mode')]_vars

\* C13 amended: in any sequence of init and restore calls, whatever the
\* mode before it, a restore call whose two backend operations succeed
\* returns Ok and leaves normal mode; it returns Err exactly when one of
\* them fails: a failed LeaveAlternateScreen leaves both modes as they were,
\* a failed disable_raw_mode leaves the raw mode as it was.
C13_RestoreIdempotent ==
    [][RestoreCalled
        => LET c == tui_log'[Len(tui_log')] IN
           /\ c.ok <=> c.fault = "none"
           /\ c.fault = "none" => (~alt_screen' /\ ~raw_mode')
           /\ c.fault = "leave"
                => (alt_screen' = alt_screen /\ raw_mode' = raw_mode)
           /\ c.fault = "disable"
                => (~alt_screen' /\ raw_mode' = raw_mode)]_vars

\* C13 witness: an enter followed by two restores in a row, all Ok, with
\* the terminal in normal mode.
C13_Witness ==
    /\ prog = "tui"
    /\ Len(tui_log) = 3
    /\ tui_log[1] = TuiCall("init", "none", TRUE)
    /\ tui_log[2] = TuiCall("restore", "none", TRUE)
    /\ tui_log[3] = TuiCall("restore", "none", TRUE)
    /\ normal_mode


\* errors that arise inside App::run
LoopErrors == {"io: draw", "io: read", "counter overflow"}

\* the counter program has ended and App::run had been entered
RunEnded ==
    /\ prog = "counter" /\ pc = "exited"
    /\ eyre_hook_set /\ err # "io: init"

\* C14 as stated: when the counter program ends after entering the loop,
\* run has returned success iff exit is true, and it has returned an error
\* iff a fatal failure (a failed draw or read, a failing key handler, a
\* panic) occurred in the loop.
C14_RunResultIff ==
    RunEnded =>
        /\ status = "ok" <=> exit
        /\ status = "err" <=> (err \in LoopErrors \/ panic_msg # "none")

\* what holds of the result of run in every state (amended C14)
C14_Result ==
    /\ RunEnded => (status = "ok" <=> exit)
    /\ (RunEnded /\ status = "err") => (err \in LoopErrors /\ panic_msg = "none")
    /\ (RunEnded /\ err \in LoopErrors)
            => \/ status = "err"
               \/ status \in {"panic", "abort"} /\ panic_msg = "unwrap on Err"
    /\ (RunEnded /\ status \in {"panic", "abort"})
            => panic_msg \in {"unwrap on Err",
                              "attempt to subtract with overflow",
                              "attempt to add with overflow"}

\* C14 amended: run returns success iff exit became true; it returns an
\* error only after a fatal failure in the loop (failed draw, failed read,
\* rejected increment), with that originating error, and once the failure
\* has occurred no transition, frame or read follows.  A fatal failure ends
\* in a panic instead of an error return in two cases: the arithmetic
\* overflow of the counter, and a failed restore in the eyre hook.
C14_RunResult ==
    [][/\ C14_Result'
       /\ (prog = "counter" /\ (err # "none" \/ panic_msg # "none"))
            => (/\ counter' = counter /\ exit' = exit
                /\ frames' = frames /\ waits' = waits /\ reads' = reads
                /\ err' = err)]_vars

\* C14 witness: a failed event read has made run return its error.
C14_Witness ==
    /\ prog = "counter"
    /\ pc = "exited"
    /\ status = "err"
    /\ err = "io: read"
    /\ frames >= 1
    /\ ~exit


\* C15: when a Right press has just been handled with success, handling a
\* Left press next succeeds too and gives back the state the Right press
\* was handled in: the counter as before the two events, exit unchanged.
C15_IncrementDecrementRoundTrip ==
    [][(/\ Dispatched("Left")
        /\ event = KeyPress("Right") /\ outcome = "Ok"
        /\ calls + reads >= 1)
        => (/\ outcome' = "Ok"
            /\ counter' = prev.counter
            /\ exit' = prev.exit
            /\ exit' = exit)]_vars

\* C15 witness: Right then Left, both Ok, from counter = 1.
C15_Witness ==
    /\ prog = "unit"
    /\ calls = 2
    /\ event = KeyPress("Left")
    /\ outcome = "Ok"
    /\ prev.counter = 2
    /\ counter = 1


\* C16: handling a 'q' press in a state (c, false) succeeds and yields
\* (c, true), for every counter value c; in the counter program the loop is
\* then at its top-of-iteration check, whose step ends the run with success
\* and the counter untouched.
C16_QuitOnlySetsExit ==
    [][/\ (Dispatched("q") /\ ~exit)
            => (/\ outcome' = "Ok"
                /\ counter' = counter
                /\ exit' = TRUE
                /\ prog = "counter" => pc' = "loop_top")
       /\ (prog = "counter" /\ pc = "loop_top" /\ exit)
            => (/\ pc' = "exited" /\ status' = "ok"
                /\ counter' = counter /\ exit' = exit
                /\ frames' = frames)]_vars

\* C16 witness: scenario C, the run has ended with success in (1, true)
\* after a 'q' press in (1, false).
C16_Witness ==
    /\ prog = "counter"
    /\ event = KeyPress("q")
    /\ prev = [counter |-> 1, exit |-> FALSE]
    /\ counter = 1 /\ exit
    /\ pc = "exited" /\ status = "ok"


\* C17: when the counter program has ended in the panic of a counter
\* underflow, or in an error propagated to main from the loop (counter
\* overflow, failed draw, failed event read), tui::restore has been called
\* exactly once.
C17_RestoreOncePerFatalExit ==
    (prog = "counter" /\ pc = "exited") =>
        /\ (status = "err" /\ err \in LoopErrors) => restores = 1
        /\ panic_msg = "attempt to subtract with overflow" => restores = 1

\* C17 witness: the overflow error, wrapped twice on its way up, has been
\* reported by main.
C17_Witness ==
    /\ prog = "counter"
    /\ pc = "exited"
    /\ status = "err"
    /\ err = "counter overflow"
    /\ restores = 1
    /\ normal_mode


\* positions of main_loop
HelloLoop == {"h_draw", "h_poll", "h_read"}

\* the step is an event::poll that timed out
PollTimedOut ==
    /\ prog = "hello" /\ pc = "h_poll"
    /\ waits' = waits + 1
    /\ poll' = "timeout"

\* what a timed-out iteration does, and what follows a draw (C18)
C18_TimeoutStep ==
    /\ PollTimedOut
         => (/\ pc' = "h_draw"
             /\ reads' = reads /\ event' = event
             /\ counter' = counter /\ exit' = exit
             /\ alt_screen' = alt_screen /\ raw_mode' = raw_mode
             /\ frames' = frames
             /\ status' = status /\ err' = err /\ diag' = diag)
    /\ (prog = "hello" /\ pc = "h_draw" /\ pc' # "h_draw" /\ status' = status)
         => (pc' = "h_poll" /\ frames' = frames + 1)

\* C18 as stated: in the polling loop an iteration whose poll times out
\* reads no event, changes no state and goes on to the next iteration (a
\* draw, then a poll), and the loop ends only when a 'q' key press is read.
C18_OnlyQuitEndsLoop ==
    [][/\ C18_TimeoutStep
       /\ (prog = "hello" /\ pc \in HelloLoop /\ pc' \notin HelloLoop)
            => (pc = "h_read" /\ event' = KeyPress("q"))]_vars

\* C18 amended: as stated, except that the loop ends when a 'q' key press
\* is read or when draw, poll or read fails (main_loop then returns the
\* error); a timeout never ends it.
C18_TimeoutContinues ==
    [][/\ C18_TimeoutStep
       /\ (prog = "hello" /\ pc \in HelloLoop /\ pc' \notin HelloLoop)
            => \/ (/\ pc = "h_read" /\ event' = KeyPress("q")
                   /\ pc' = "leave_alt" /\ status' = status)
               \/ (/\ status' = "err" /\ pc' = "exited"
                   /\ err' \in {"io: draw", "io: poll", "io: read"}
                   /\ (pc = "h_poll" => poll' = "fail"))]_vars

\* C18 witness: after an iteration whose poll timed out the loop has drawn
\* again and is polling again.
C18_Witness ==
    /\ prog = "hello"
    /\ poll = "timeout"
    /\ pc = "h_poll"
    /\ frames = 2 /\ waits = 1 /\ reads = 0
    /\ status = "running"


\* C19: every frame the counter program's run loop submits for display
\* shows a counter value in [0, 2]; no frame is drawn while the counter is
\* outside [0, 2].
C19_FramesInRange ==
    (prog = "counter" /\ frames > 0) => frame \in 0 .. CounterMax

\* the same with overflow checks on: the arithmetic panic and the rejected
\* increment both leave run before the next draw
C19_FramesInRangeChecked ==
    (prog = "counter" /\ overflow_checks /\ frames > 0)
        => frame \in 0 .. CounterMax


\* tui::init entered the alternate screen and failed afterwards
PartialInitFaults == {"enable", "new"}

\* the counter program has ended after a partially failed tui::init
PartialInitEnded ==
    /\ prog = "counter" /\ pc = "exited"
    /\ init_fault \in PartialInitFaults

\* every diagnostic was written with the terminal in normal mode
ReportedInNormalMode ==
    \A i \in 1 .. Len(diag) : ~diag[i].alt /\ ~diag[i].raw

\* C20 as stated: in the counter program, if tui::init enters the alternate
\* screen and then fails, the terminal is back in normal mode before the
\* error is reported and the process exits; no execution ends with a mode
\* switch not undone.
C20_PartialInitRestored ==
    PartialInitEnded => (normal_mode /\ ReportedInNormalMode)

\* C20 amended: after a partially failed tui::init the eyre hook calls
\* restore; if that succeeds the error is reported in normal mode and the
\* process exits with it; if it fails, the unwrap panics and the panic hook
\* calls restore again, and only when that fails too does the process end
\* (by abort) with a mode switch possibly left on.
C20_PartialInitRestoredUnlessRestoreFails ==
    PartialInitEnded =>
        /\ err = "io: init"
        /\ status \in {"err", "panic", "abort"}
        /\ status = "err"
             => (/\ restores = 1 /\ normal_mode
                 /\ diag = <<Diag("error", FALSE, FALSE)>>)
        /\ status = "panic"
             => (/\ restores = 2 /\ normal_mode
                 /\ panic_msg = "unwrap on Err"
                 /\ diag = <<Diag("panic", FALSE, FALSE)>>)
        /\ status = "abort"
             => (/\ restores = 2
                 /\ panic_msg = "unwrap on Err"
                 /\ Len(diag) = 1 /\ diag[1].kind = "abort")
        /\ ~normal_mode => status = "abort"

\* C20 witness: tui::init failed after entering the alternate screen, the
\* eyre hook restored the terminal, and the error was reported in normal
\* mode.
C20_Witness ==
    /\ PartialInitEnded
    /\ status = "err" /\ err = "io: init"
    /\ restores = 1
    /\ normal_mode
    /\ diag = <<Diag("error", FALSE, FALSE)>>

====
